---- MODULE Spec2Model ----
(***************************************************************************)
(* A model of NetUtilsLib (src/src/index.ts): IPv4 / mask / CIDR           *)
(* arithmetic on text, and the VLSM subnet allocation built on it.         *)
(*                                                                         *)
(* A JavaScript string is a sequence of one-character strings, so that     *)
(* split, padStart, regular-expression tests and parseInt are computed on  *)
(* the characters as the code computes them.  A JavaScript number that is  *)
(* known to be a small integer is a TLA+ integer; where the code can meet  *)
(* NaN, an infinity or a fraction the number is a record (see Number).     *)
(* A function that can throw returns Ok(v) or Throw(message).              *)
(***************************************************************************)
EXTENDS Integers, Sequences, FiniteSets

VARIABLES
    calls,            \* the calls a caller of the pure functions has made so far
    pc,               \* position of the caller of the planner functions
    hostCounts,       \* the caller-owned array passed as hostCounts / hostsPerSubnet
    hostCountsAtCall, \* its contents when the running (or last) call was made
    call,             \* the planner call just finished
    ret               \* what the finished planner call returned or threw

vars == <<calls, pc, hostCounts, hostCountsAtCall, call, ret>>

-----------------------------------------------------------------------------
(* Results and JavaScript numbers *)

Ok(v) == [ok |-> TRUE, value |-> v]

Throw(message) == [ok |-> FALSE, error |-> message]

\* a statement that uses the value of a call: an exception thrown by the call
\* leaves the function, otherwise the rest runs on the value returned
Then(result, Rest(_)) == IF ~result.ok THEN result ELSE Rest(result.value)

\* A JavaScript number where non-integers can occur.
Number(n) == [kind |-> "integer", value |-> n]

NaN == [kind |-> "NaN"]

Infinity == [kind |-> "Infinity"]

\* some number strictly between n and n + 1
Fraction(n) == [kind |-> "fraction", floor |-> n]

-----------------------------------------------------------------------------
(* String primitives of the JavaScript runtime *)

Digits == <<"0", "1", "2", "3", "4", "5", "6", "7", "8", "9">>

IsDigit(c) == c \in {"0", "1", "2", "3", "4", "5", "6", "7", "8", "9"}

DigitValue(c) == (CHOOSE d \in 1..10 : Digits[d] = c) - 1

\* String.prototype.split(separator) for a one-character separator: the
\* pieces of s from position from on, scanning from position i
RECURSIVE SplitAt(_, _, _, _)
SplitAt(s, sep, from, i) ==
    IF i > Len(s) THEN <<SubSeq(s, from, Len(s))>>
    ELSE IF s[i] = sep
    THEN <<SubSeq(s, from, i - 1)>> \o SplitAt(s, sep, i + 1, i + 1)
    ELSE SplitAt(s, sep, from, i + 1)

Split(s, sep) == SplitAt(s, sep, 1, 1)

\* Array.prototype.join(separator); the separator is a string
RECURSIVE Join(_, _)
Join(parts, sep) ==
    IF Len(parts) = 0 THEN <<>>
    ELSE IF Len(parts) = 1 THEN parts[1]
    ELSE parts[1] \o sep \o Join(Tail(parts), sep)

\* String.prototype.repeat(n)
Repeat(c, n) == [i \in 1..n |-> c]

\* String.prototype.padStart(n, c) and padEnd(n, c): no effect on a longer string
PadStart(s, n, c) == IF Len(s) >= n THEN s ELSE Repeat(c, n - Len(s)) \o s

PadEnd(s, n, c) == IF Len(s) >= n THEN s ELSE s \o Repeat(c, n - Len(s))

\* the value of a string of decimal digits
RECURSIVE DecimalValue(_)
DecimalValue(s) ==
    IF Len(s) = 0 THEN 0
    ELSE 10 * DecimalValue(SubSeq(s, 1, Len(s) - 1)) + DigitValue(s[Len(s)])

\* the value of a string of binary digits
RECURSIVE BinaryValue(_)
BinaryValue(s) ==
    IF Len(s) = 0 THEN 0
    ELSE 2 * BinaryValue(SubSeq(s, 1, Len(s) - 1)) + (IF s[Len(s)] = "1" THEN 1 ELSE 0)

\* the longest prefix of s made of decimal digits
RECURSIVE DigitPrefix(_)
DigitPrefix(s) ==
    IF Len(s) = 0 \/ ~IsDigit(s[1]) THEN <<>>
    ELSE <<s[1]>> \o DigitPrefix(Tail(s))

\* the string without its leading white space
RECURSIVE TrimStart(_)
TrimStart(s) == IF Len(s) > 0 /\ s[1] = " " THEN TrimStart(Tail(s)) ELSE s

\* parseInt(s) with no radix, on texts without the letter x (no hexadecimal
\* prefix): leading white space is skipped, then an optional sign, then the
\* longest run of decimal digits is read and the rest of the text is ignored;
\* NaN when there is no digit to read.
ParseInt(s) ==
    LET t == TrimStart(s)
        signed == Len(t) > 0 /\ t[1] \in {"-", "+"}
        body == DigitPrefix(IF signed THEN Tail(t) ELSE t)
    IN  IF Len(body) = 0 THEN NaN
        ELSE IF signed /\ t[1] = "-" THEN Number(0 - DecimalValue(body))
        ELSE Number(DecimalValue(body))

\* Number.prototype.toString(10) of a non-negative integer
RECURSIVE NumberToString(_)
NumberToString(n) ==
    IF n < 10 THEN <<Digits[n + 1]>>
    ELSE NumberToString(n \div 10) \o <<Digits[(n % 10) + 1]>>

\* Number.prototype.toString(2) of a non-negative integer
RECURSIVE ToBinaryString(_)
ToBinaryString(n) ==
    IF n < 2 THEN <<Digits[n + 1]>>
    ELSE ToBinaryString(n \div 2) \o <<Digits[(n % 2) + 1]>>

-----------------------------------------------------------------------------
(* AddressCodec *)

\* /^(\d{1,3}\.){3}\d{1,3}$/.test(ip)
MatchesPattern(ip) ==
    LET groups == Split(ip, ".")
    IN  /\ Len(groups) = 4
        /\ \A i \in 1..4 :
              /\ Len(groups[i]) \in 1..3
              /\ \A j \in 1..Len(groups[i]) : IsDigit(groups[i][j])

isValidIPv4(ip) ==
    IF ~MatchesPattern(ip) THEN FALSE
    ELSE LET octets == Split(ip, ".")
         IN  \A i \in 1..4 :
                LET octet == ParseInt(octets[i])
                IN  octet.value >= 0 /\ octet.value <= 255

\* isValidCIDR with the upper bound excluded
isValidCIDRBelow32(cidr) ==
    cidr.kind = "integer" /\ cidr.value >= 0 /\ cidr.value < 32

isValidCIDR(cidr) ==
    cidr.kind = "integer" /\ cidr.value >= 0 /\ cidr.value <= 32

\* ipToBinary without padStart(8, '0')
ipToBinaryUnpadded(ip) ==
    IF ~isValidIPv4(ip) THEN Throw("Invalid IP address")
    ELSE LET octets == Split(ip, ".")
         IN  Ok(Join([i \in 1..Len(octets) |->
                        ToBinaryString(ParseInt(octets[i]).value)],
                     <<>>))

ipToBinary(ip) ==
    IF ~isValidIPv4(ip) THEN Throw("Invalid IP address")
    ELSE LET octets == Split(ip, ".")
         IN  Ok(Join([i \in 1..Len(octets) |->
                        PadStart(ToBinaryString(ParseInt(octets[i]).value), 8, "0")],
                     <<>>))

binaryToIP(binary) ==
    IF Len(binary) # 32 \/ \E i \in 1..Len(binary) : binary[i] \notin {"0", "1"}
    THEN Throw("Invalid binary string")
    ELSE Ok(Join([i \in 1..4 |->
                    NumberToString(BinaryValue(SubSeq(binary, 8 * i - 7, 8 * i)))],
                 <<".">>))

-----------------------------------------------------------------------------
(* MaskArithmetic *)

calculateSubnetMask(cidr) ==
    IF ~isValidCIDR(cidr) THEN Throw("Invalid CIDR notation")
    ELSE binaryToIP(PadEnd(Repeat("1", cidr.value), 32, "0"))

calculateCIDR(subnetMask) ==
    IF ~isValidIPv4(subnetMask) THEN Throw("Invalid subnet mask")
    ELSE Ok(Number(Len(Split(ipToBinary(subnetMask).value, "0")[1])))

normalizeMaskToCIDR(subnetMaskOrCIDR) ==
    IF isValidCIDR(ParseInt(subnetMaskOrCIDR))
    THEN Ok(ParseInt(subnetMaskOrCIDR))
    ELSE IF isValidIPv4(subnetMaskOrCIDR)
    THEN calculateCIDR(subnetMaskOrCIDR)
    ELSE Throw("Invalid subnet mask or CIDR notation")

\* bit => bit === '0' ? '1' : '0' over every character
InvertBits(bits) == [i \in 1..Len(bits) |-> IF bits[i] = "0" THEN "1" ELSE "0"]

\* Number(bit) & Number(mask[index]) and Number(bit) | Number(mask[index]),
\* joined back into a string
AndBits(a, b) ==
    [i \in 1..Len(a) |-> IF a[i] = "1" /\ b[i] = "1" THEN "1" ELSE "0"]

OrBits(a, b) ==
    [i \in 1..Len(a) |-> IF a[i] = "1" \/ b[i] = "1" THEN "1" ELSE "0"]

\* calculateWildCardMask without the inversion of the mask's bits
calculateWildCardMaskNotInverted(subnetMaskOrCIDR) ==
    LET cidr == normalizeMaskToCIDR(subnetMaskOrCIDR)
    IN  IF ~cidr.ok THEN cidr
        ELSE LET subnetMask == calculateSubnetMask(cidr.value)
                 maskBinary == ipToBinary(subnetMask.value)
             IN  binaryToIP(maskBinary.value)

calculateWildCardMask(subnetMaskOrCIDR) ==
    LET cidr == normalizeMaskToCIDR(subnetMaskOrCIDR)
    IN  IF ~cidr.ok THEN cidr
        ELSE LET subnetMask == calculateSubnetMask(cidr.value)
                 maskBinary == ipToBinary(subnetMask.value)
             IN  binaryToIP(InvertBits(maskBinary.value))

-----------------------------------------------------------------------------
(* RangeCalculator *)

\* calculateNetworkAddress with | in place of &
calculateNetworkAddressOr(ip, subnetMaskOrCIDR) ==
    IF ~isValidIPv4(ip) THEN Throw("Invalid IP address")
    ELSE LET cidr == normalizeMaskToCIDR(subnetMaskOrCIDR)
         IN  IF ~cidr.ok THEN cidr
             ELSE LET subnetMask == calculateSubnetMask(cidr.value)
                      ipBinary == ipToBinary(ip)
                      maskBinary == ipToBinary(subnetMask.value)
                  IN  binaryToIP(OrBits(ipBinary.value, maskBinary.value))

calculateNetworkAddress(ip, subnetMaskOrCIDR) ==
    IF ~isValidIPv4(ip) THEN Throw("Invalid IP address")
    ELSE LET cidr == normalizeMaskToCIDR(subnetMaskOrCIDR)
         IN  IF ~cidr.ok THEN cidr
             ELSE LET subnetMask == calculateSubnetMask(cidr.value)
                      ipBinary == ipToBinary(ip)
                      maskBinary == ipToBinary(subnetMask.value)
                  IN  binaryToIP(AndBits(ipBinary.value, maskBinary.value))

calculateBroadcastAddress(ip, subnetMaskOrCIDR) ==
    IF ~isValidIPv4(ip) THEN Throw("Invalid IP address")
    ELSE LET cidr == normalizeMaskToCIDR(subnetMaskOrCIDR)
         IN  IF ~cidr.ok THEN cidr
             ELSE LET subnetMask == calculateSubnetMask(cidr.value)
                      ipBinary == ipToBinary(ip)
                      maskBinary == ipToBinary(subnetMask.value)
                      invertedMask == InvertBits(maskBinary.value)
                  IN  binaryToIP(OrBits(ipBinary.value, invertedMask))

\* A BigInt: a sign and the binary digits of its magnitude, most significant
\* first and without leading zeros (zero has no digit).
\* BigInt(`0b${bits}`)
BigIntFromBinary(bits) ==
    LET RECURSIVE Strip(_)
        Strip(b) == IF Len(b) > 0 /\ b[1] = "0" THEN Strip(Tail(b)) ELSE b
    IN  [negative |-> FALSE, magnitude |-> Strip(bits)]

RECURSIVE MagnitudePlusOne(_)
MagnitudePlusOne(m) ==
    IF Len(m) = 0 THEN <<"1">>
    ELSE IF m[Len(m)] = "0" THEN SubSeq(m, 1, Len(m) - 1) \o <<"1">>
    ELSE MagnitudePlusOne(SubSeq(m, 1, Len(m) - 1)) \o <<"0">>

\* the magnitude m - 1 of a magnitude m > 0
RECURSIVE MagnitudeMinusOne(_)
MagnitudeMinusOne(m) ==
    IF m[Len(m)] = "1"
    THEN (IF Len(m) = 1 THEN <<>> ELSE SubSeq(m, 1, Len(m) - 1) \o <<"0">>)
    ELSE MagnitudeMinusOne(SubSeq(m, 1, Len(m) - 1)) \o <<"1">>

\* b + BigInt(1) and b - BigInt(1) for a BigInt b >= 0
\* b + BigInt(0)
BigIntPlusZero(b) == [negative |-> FALSE, magnitude |-> b.magnitude]

BigIntPlusOne(b) == [negative |-> FALSE, magnitude |-> MagnitudePlusOne(b.magnitude)]

BigIntMinusOne(b) ==
    IF Len(b.magnitude) = 0 THEN [negative |-> TRUE, magnitude |-> <<"1">>]
    ELSE [negative |-> FALSE, magnitude |-> MagnitudeMinusOne(b.magnitude)]

\* BigInt.prototype.toString(2)
BigIntToBinaryString(b) ==
    IF Len(b.magnitude) = 0 THEN <<"0">>
    ELSE IF b.negative THEN <<"-">> \o b.magnitude
    ELSE b.magnitude

incrementIP(ip) ==
    LET bits == ipToBinary(ip)
    IN  IF ~bits.ok THEN bits
        ELSE LET binary == BigIntPlusOne(BigIntFromBinary(bits.value))
             IN  binaryToIP(PadStart(BigIntToBinaryString(binary), 32, "0"))

decrementIP(ip) ==
    LET bits == ipToBinary(ip)
    IN  IF ~bits.ok THEN bits
        ELSE LET binary == BigIntMinusOne(BigIntFromBinary(bits.value))
             IN  binaryToIP(PadStart(BigIntToBinaryString(binary), 32, "0"))

calculateIPRange(networkAddress, subnetMaskOrCIDR) ==
    Then(normalizeMaskToCIDR(subnetMaskOrCIDR), LAMBDA cidr :
    Then(calculateSubnetMask(cidr), LAMBDA subnetMask :
    Then(incrementIP(networkAddress), LAMBDA firstIP :
    Then(calculateBroadcastAddress(networkAddress, subnetMask), LAMBDA broadcast :
    Then(decrementIP(broadcast), LAMBDA lastIP :
        Ok([firstIP |-> firstIP, lastIP |-> lastIP]))))))

\* A JavaScript number beyond the model checker's integers is kept as
\* <<hi, lo>>, standing for hi * 2^16 + lo with lo in 0..65535.
Wide(n) == <<n \div 65536, n % 65536>>

WideMinus(a, b) ==
    IF a[2] - b[2] < 0 THEN <<a[1] - b[1] - 1, a[2] - b[2] + 65536>>
    ELSE <<a[1] - b[1], a[2] - b[2]>>

\* Math.pow(2, n) for n in 0..32
Pow2(n) == IF n < 16 THEN <<0, 2 ^ n>> ELSE <<2 ^ (n - 16), 0>>

\* calculateAvailableIPs that subtracts the network address only
calculateAvailableIPsMinusOne(subnetMaskOrCIDR) ==
    LET cidr == normalizeMaskToCIDR(subnetMaskOrCIDR)
    IN  IF ~cidr.ok THEN cidr
        ELSE Ok(WideMinus(Pow2(32 - cidr.value.value), Wide(1)))

calculateAvailableIPs(subnetMaskOrCIDR) ==
    LET cidr == normalizeMaskToCIDR(subnetMaskOrCIDR)
    IN  IF ~cidr.ok THEN cidr
        ELSE Ok(WideMinus(Pow2(32 - cidr.value.value), Wide(2)))

-----------------------------------------------------------------------------
(* SubnetPlanner *)

NegativeInfinity == [kind |-> "-Infinity"]

\* a - b on numbers that are integers or infinities
Subtract(a, b) ==
    IF a.kind = "integer" /\ b.kind = "integer" THEN Number(a.value - b.value)
    ELSE IF a.kind = "NaN" \/ b.kind = "NaN" \/ a.kind = b.kind THEN NaN
    ELSE IF a.kind = "Infinity" \/ b.kind = "-Infinity" THEN Infinity
    ELSE NegativeInfinity

\* the comparator's result orders its first argument before its second
IsNegative(x) == (x.kind = "integer" /\ x.value < 0) \/ x.kind = "-Infinity"

\* Array.prototype.sort(comparator), which is stable: the element at i goes
\* after every element ordered before it and after the earlier elements the
\* comparator does not order after it.  Before(a, b) is comparator(a, b) < 0.
ArraySort(array, Before(_, _)) ==
    LET rank(i) ==
            1 + Cardinality({j \in 1..Len(array) :
                                \/ Before(array[j], array[i])
                                \/ (j < i /\ ~Before(array[i], array[j]))})
    IN  [r \in 1..Len(array) |-> array[CHOOSE i \in 1..Len(array) : rank(i) = r]]

\* (a, b) => b - a
Descending(a, b) == IsNegative(Subtract(b, a))

\* the comparator of line 238 with its operands exchanged
AscendingExchanged(a, b) == IsNegative(Subtract(b, a))

\* (a, b) => a - b
Ascending(a, b) == IsNegative(Subtract(a, b))

\* Math.ceil(Math.log2(n)): the least k with 2^k >= n for n >= 1, -Infinity
\* for n = 0, NaN for n < 0
CeilLog2(n) ==
    IF n < 0 THEN NaN
    ELSE IF n = 0 THEN NegativeInfinity
    ELSE Number(CHOOSE k \in 0..30 : 2 ^ k >= n /\ (k = 0 \/ 2 ^ (k - 1) < n))

\* Math.ceil(Math.log2(count)), the reserved addresses forgotten
RequiredBitsNoReserve(count) == CeilLog2(count)

\* const requiredBits = Math.ceil(Math.log2(count + 2))
RequiredBits(count) == CeilLog2(count + 2)

\* hostCounts after hostCounts.sort((a, b) => b - a), in place
SortedInPlace(counts) ==
    LET sorted == ArraySort([i \in 1..Len(counts) |-> Number(counts[i])], Descending)
    IN  [i \in 1..Len(counts) |-> sorted[i].value]

\* what calculateRequiredSubnets returns
calculateRequiredSubnets(counts) ==
    LET sorted == SortedInPlace(counts)
    IN  ArraySort([i \in 1..Len(sorted) |-> Subtract(Number(32), RequiredBits(sorted[i]))],
                  Descending)

\* this.ipToBinary(this.incrementIP(broadcast)), the cursor not advanced past
\* the broadcast address
NextNetworkAtBroadcast(broadcast) == ipToBinary(broadcast)

\* const nextNetwork = this.ipToBinary(this.incrementIP(broadcast))
NextNetwork(broadcast) ==
    Then(incrementIP(broadcast), LAMBDA next : ipToBinary(next))

\* one call of the callback of subnetSizes.map: the record, and the cursor
\* for the next call
AllocateOne(current, size) ==
    Then(calculateSubnetMask(size), LAMBDA subnetMask :
    Then(binaryToIP(current), LAMBDA network :
    Then(calculateBroadcastAddress(network, subnetMask), LAMBDA broadcast :
    Then(calculateIPRange(network, subnetMask), LAMBDA range :
    Then(NextNetwork(broadcast), LAMBDA nextNetwork :
    Then(calculateWildCardMask(subnetMask), LAMBDA wildCardMask :
    Then(calculateAvailableIPs(NumberToString(size.value)), LAMBDA availableIPs :
        Ok([record |-> [network |-> network,
                        subnetMask |-> subnetMask,
                        cidr |-> size,
                        broadcast |-> broadcast,
                        firstIP |-> range.firstIP,
                        lastIP |-> range.lastIP,
                        wildCardMask |-> wildCardMask,
                        availableIPs |-> availableIPs],
            nextNetwork |-> nextNetwork]))))))))

\* subnetSizes.map(callback) from position index on: the callback runs on
\* each element in turn, with the cursor the previous call left
RECURSIVE MapFrom(_, _, _, _)
MapFrom(currentNetwork, subnetSizes, index, records) ==
    IF index > Len(subnetSizes) THEN Ok(records)
    ELSE Then(AllocateOne(currentNetwork, subnetSizes[index]), LAMBDA one :
             MapFrom(one.nextNetwork, subnetSizes, index + 1,
                     Append(records, one.record)))

\* what allocateSubnets returns or throws
allocateSubnets(ip, subnetMaskOrCIDR, hostsPerSubnet) ==
    Then(calculateNetworkAddress(ip, subnetMaskOrCIDR), LAMBDA networkAddress :
    Then(ipToBinary(networkAddress), LAMBDA currentNetwork :
        MapFrom(currentNetwork,
                ArraySort(calculateRequiredSubnets(hostsPerSubnet), Ascending),
                1, <<>>)))

\* hostsPerSubnet when allocateSubnets is left: sorted in place by
\* calculateRequiredSubnets unless lines 235 or 236 threw before
hostsPerSubnetAfter(ip, subnetMaskOrCIDR, hostsPerSubnet) ==
    IF calculateNetworkAddress(ip, subnetMaskOrCIDR).ok
    THEN SortedInPlace(hostsPerSubnet)
    ELSE hostsPerSubnet

-----------------------------------------------------------------------------
(* A caller of the pure functions.  It calls one function on an input, may   *)
(* then call a second one on what the first returned (or on the same input), *)
(* and starts over.  The planner's variables stay as constructed.            *)

plannerVars == <<pc, hostCounts, hostCountsAtCall, call, ret>>

NoCall == [op |-> "none"]

PlannerInit ==
    /\ pc = "idle"
    /\ hostCountsAtCall = <<>>
    /\ call = NoCall
    /\ ret = NoCall

Invoke(op, args, result) ==
    /\ calls' = Append(calls, [op |-> op, args |-> args, ret |-> result])
    /\ UNCHANGED plannerVars

\* the second call is made on the value the first call returned
Returned(op) == Len(calls) = 1 /\ calls[1].op = op /\ calls[1].ret.ok

Forget ==
    /\ calls # <<>>
    /\ calls' = <<>>
    /\ UNCHANGED plannerVars

PureInit == calls = <<>> /\ hostCounts = <<>> /\ PlannerInit

\* Inputs -------------------------------------------------------------------

\* the texts of one dot-separated group: canonical numerals, numerals with
\* leading zeros, a value above 255
OctetTexts ==
    {NumberToString(0), NumberToString(7), NumberToString(192), NumberToString(255),
     <<"0">> \o NumberToString(0), <<"0", "0">> \o NumberToString(7),
     <<"0">> \o NumberToString(10), NumberToString(256)}

\* texts that are not four groups of one to three digits
MalformedTexts ==
    {<<>>,
     Join(<<NumberToString(1), NumberToString(2), NumberToString(3)>>, <<".">>),
     Join([i \in 1..5 |-> NumberToString(i)], <<".">>),
     Join(<<NumberToString(1), <<>>, NumberToString(3), NumberToString(4)>>, <<".">>),
     Join(<<NumberToString(1), NumberToString(2), NumberToString(3), <<"a">>>>, <<".">>),
     Join(<<NumberToString(1000), NumberToString(2), NumberToString(3), NumberToString(4)>>, <<".">>),
     <<"-">> \o Join([i \in 1..4 |-> NumberToString(i)], <<".">>),
     Join([i \in 1..4 |-> NumberToString(i)], <<".">>) \o <<" ">>}

IPTexts ==
    {Join(g, <<".">>) : g \in [1..4 -> OctetTexts]} \cup MalformedTexts

\* strings handed to binaryToIP that are not 32 binary digits
BadBinaryTexts ==
    {<<>>, Repeat("1", 31), Repeat("0", 33), Repeat("1", 31) \o <<"2">>,
     <<"-">> \o Repeat("1", 31)}

\* SpecCodec ----------------------------------------------------------------

CallIsValidIPv4 ==
    /\ calls = <<>>
    /\ \E ip \in IPTexts : Invoke("isValidIPv4", <<ip>>, Ok(isValidIPv4(ip)))

CallIpToBinary ==
    /\ calls = <<>>
    /\ \E ip \in IPTexts : Invoke("ipToBinary", <<ip>>, ipToBinary(ip))

CallBinaryToIP ==
    \/ /\ calls = <<>>
       /\ \E binary \in BadBinaryTexts :
             Invoke("binaryToIP", <<binary>>, binaryToIP(binary))
    \/ /\ Returned("ipToBinary")
       /\ Invoke("binaryToIP", <<calls[1].ret.value>>, binaryToIP(calls[1].ret.value))

NextCodec == CallIsValidIPv4 \/ CallIpToBinary \/ CallBinaryToIP \/ Forget

SpecCodec == PureInit /\ [][NextCodec]_vars

\* C7 ------------------------------------------------------------------------

\* four dot-separated groups of 1 to 3 decimal digits, each with value in [0,255]
AcceptedText(ip) ==
    LET g == Split(ip, ".")
    IN  /\ Len(g) = 4
        /\ \A i \in 1..4 :
              /\ Len(g[i]) \in 1..3
              /\ \A j \in 1..Len(g[i]) : g[i][j] \in {Digits[d] : d \in 1..10}
              /\ DecimalValue(g[i]) \in 0..255

\* a group of digits without its leading zeros (one digit is always kept)
RECURSIVE StripLeadingZeros(_)
StripLeadingZeros(g) ==
    IF Len(g) > 1 /\ g[1] = "0" THEN StripLeadingZeros(Tail(g)) ELSE g

CanonicalText(ip) ==
    LET g == Split(ip, ".")
    IN  Join([i \in 1..Len(g) |-> StripLeadingZeros(g[i])], <<".">>)

HasLeadingZero(ip) ==
    \E i \in 1..Len(Split(ip, ".")) :
        Len(Split(ip, ".")[i]) > 1 /\ Split(ip, ".")[i][1] = "0"

RoundTripDone ==
    /\ Len(calls) = 2
    /\ calls[1].op = "ipToBinary"
    /\ calls[2].op = "binaryToIP"
    /\ calls[2].args = <<calls[1].ret.value>>

\* C7 as stated: for every text ip accepted by isValidIPv4 (leading zeros
\* allowed), binaryToIP(ipToBinary(ip)) == ip as text.
C7_RoundTripIsIdentity ==
    (RoundTripDone /\ AcceptedText(calls[1].args[1]))
        => calls[2].ret = Ok(calls[1].args[1])

\* C7 as amended: isValidIPv4 accepts exactly the texts of four groups of 1 to
\* 3 digits with values in [0,255]; for an accepted ip, ipToBinary(ip) is a
\* 32-character string of '0'/'1' whose i-th group of 8 bits is the binary
\* value of the i-th octet, and binaryToIP(ipToBinary(ip)) is ip with the
\* leading zeros of every group removed: it equals ip as text exactly when no
\* group of ip has a leading zero.
C7_RoundTripCanonical ==
    /\ \A k \in 1..Len(calls) :
          calls[k].op = "isValidIPv4"
              => calls[k].ret = Ok(AcceptedText(calls[k].args[1]))
    /\ (Len(calls) >= 1 /\ calls[1].op = "ipToBinary")
          => LET ip == calls[1].args[1]
                 r == calls[1].ret
             IN  /\ r.ok <=> AcceptedText(ip)
                 /\ r.ok =>
                       /\ Len(r.value) = 32
                       /\ \A i \in 1..32 : r.value[i] \in {"0", "1"}
                       /\ \A i \in 1..4 :
                             BinaryValue(SubSeq(r.value, 8 * i - 7, 8 * i))
                                 = DecimalValue(Split(ip, ".")[i])
    /\ RoundTripDone
          => LET ip == calls[1].args[1]
             IN  /\ calls[2].ret = Ok(CanonicalText(ip))
                 /\ (calls[2].ret.value = ip) <=> ~HasLeadingZero(ip)

\* a round trip has been made on an accepted text with a leading zero
C7_Witness ==
    /\ RoundTripDone
    /\ AcceptedText(calls[1].args[1])
    /\ HasLeadingZero(calls[1].args[1])
    /\ calls[2].ret.ok

-----------------------------------------------------------------------------
\* SpecMask -----------------------------------------------------------------

\* Inputs

MaxTextLen == 3

TextAlphabet == {"0", "2", "3", "4", ".", "a", "-"}

\* every text over TextAlphabet of at most n characters
RECURSIVE TextsUpTo(_)
TextsUpTo(n) ==
    IF n = 0 THEN {<<>>}
    ELSE TextsUpTo(n - 1)
             \cup {Append(t, c) : t \in TextsUpTo(n - 1), c \in TextAlphabet}

ShortTexts == TextsUpTo(MaxTextLen)

\* the i-th octet of the mask of prefix p
MaskOctet(p, i) ==
    LET ones == IF p - 8 * (i - 1) < 0 THEN 0
                ELSE IF p - 8 * (i - 1) > 8 THEN 8
                ELSE p - 8 * (i - 1)
    IN  256 - 2 ^ (8 - ones)

Dotted(a, b, c, d) ==
    Join(<<NumberToString(a), NumberToString(b), NumberToString(c), NumberToString(d)>>,
         <<".">>)

MaskText(p) == Dotted(MaskOctet(p, 1), MaskOctet(p, 2), MaskOctet(p, 3), MaskOctet(p, 4))

ValidMasks == {MaskText(p) : p \in 0..32}

Numerals == {NumberToString(n) : n \in 0..40}

\* dotted texts that are not the mask of a prefix
OtherDottedTexts ==
    {Dotted(10, 0, 0, 0), Dotted(24, 255, 0, 0), Dotted(32, 0, 0, 0),
     Dotted(33, 0, 0, 0), Dotted(0, 0, 0, 255), Dotted(31, 255, 255, 255),
     Dotted(127, 255, 255, 255), Dotted(255, 0, 255, 0), Dotted(192, 168, 1, 1),
     Dotted(256, 0, 0, 0), Dotted(255, 255, 255, 256)}

MaskOrCIDRTexts == ShortTexts \cup Numerals \cup ValidMasks \cup OtherDottedTexts

JSNumbers ==
    {Number(n) : n \in -2..34} \cup {NaN, Infinity}
        \cup {Fraction(n) : n \in {-1, 0, 23, 32}}

CallCalculateSubnetMask ==
    /\ calls = <<>>
    /\ \E cidr \in JSNumbers :
          Invoke("calculateSubnetMask", <<cidr>>, calculateSubnetMask(cidr))

CallCalculateCIDR ==
    \/ /\ calls = <<>>
       /\ \E subnetMask \in ValidMasks \cup OtherDottedTexts \cup Numerals :
             Invoke("calculateCIDR", <<subnetMask>>, calculateCIDR(subnetMask))
    \/ /\ Returned("calculateSubnetMask")
       /\ Invoke("calculateCIDR", <<calls[1].ret.value>>,
                 calculateCIDR(calls[1].ret.value))

CallNormalizeMaskToCIDR ==
    /\ calls = <<>>
    /\ \E text \in MaskOrCIDRTexts :
          Invoke("normalizeMaskToCIDR", <<text>>, normalizeMaskToCIDR(text))

CallCalculateWildCardMask ==
    \/ /\ calls = <<>>
       /\ \E text \in MaskOrCIDRTexts :
             Invoke("calculateWildCardMask", <<text>>, calculateWildCardMask(text))
    \/ /\ Returned("calculateWildCardMask")
       /\ Invoke("calculateWildCardMask", <<calls[1].ret.value>>,
                 calculateWildCardMask(calls[1].ret.value))

CallCalculateAvailableIPs ==
    /\ calls = <<>>
    /\ \E text \in MaskOrCIDRTexts :
          Invoke("calculateAvailableIPs", <<text>>, calculateAvailableIPs(text))

NextMask ==
    \/ CallCalculateSubnetMask
    \/ CallCalculateCIDR
    \/ CallNormalizeMaskToCIDR
    \/ CallCalculateWildCardMask
    \/ CallCalculateAvailableIPs
    \/ Forget

SpecMask == PureInit /\ [][NextMask]_vars

\* C5 ------------------------------------------------------------------------

PrefixOfMask(m) == CHOOSE p \in 0..32 : MaskText(p) = m

\* the mask with every octet o replaced by 255 - o
ComplementText(p) ==
    Dotted(255 - MaskOctet(p, 1), 255 - MaskOctet(p, 2),
           255 - MaskOctet(p, 3), 255 - MaskOctet(p, 4))

WildCardTwice ==
    /\ Len(calls) = 2
    /\ calls[1].op = "calculateWildCardMask"
    /\ calls[2].op = "calculateWildCardMask"
    /\ calls[2].args = <<calls[1].ret.value>>

\* C5 as stated: for every valid subnet mask m,
\* calculateWildCardMask(calculateWildCardMask(m)) == m.
C5_WildCardInvolution ==
    (WildCardTwice /\ calls[1].args[1] \in ValidMasks)
        => calls[2].ret = Ok(calls[1].args[1])

\* C5 as amended: for every valid subnet mask m, of prefix p,
\* calculateWildCardMask(m) is the bitwise complement of m, and
\* calculateWildCardMask(calculateWildCardMask(m)) == m exactly when p is 0 or 32.
C5_WildCardComplement ==
    /\ (Len(calls) >= 1 /\ calls[1].op = "calculateWildCardMask"
           /\ calls[1].args[1] \in ValidMasks)
          => calls[1].ret = Ok(ComplementText(PrefixOfMask(calls[1].args[1])))
    /\ (WildCardTwice /\ calls[1].args[1] \in ValidMasks)
          => /\ calls[2].ret.ok
             /\ (calls[2].ret.value = calls[1].args[1])
                   <=> PrefixOfMask(calls[1].args[1]) \in {0, 32}

\* the wildcard mask of the wildcard mask of 255.255.255.0 has been computed
C5_Witness ==
    /\ WildCardTwice
    /\ calls[1].args[1] = MaskText(24)
    /\ calls[1].ret = Ok(Dotted(0, 0, 0, 255))
    /\ calls[2].ret = Ok(Dotted(255, 255, 255, 255))

\* C6 ------------------------------------------------------------------------

\* the decimal numeral of an integer: digits, after an optional minus sign
IsNumeral(text) ==
    LET body == IF Len(text) > 0 /\ text[1] = "-" THEN Tail(text) ELSE text
    IN  Len(body) > 0 /\ \A i \in 1..Len(body) : body[i] \in {Digits[d] : d \in 1..10}

NumeralValue(text) ==
    IF text[1] = "-" THEN 0 - DecimalValue(Tail(text)) ELSE DecimalValue(text)

\* C6 as stated: normalizeMaskToCIDR(text) returns n when text is the decimal
\* numeral of an integer n in [0,32]; returns calculateCIDR(text) when text is
\* a valid dotted-decimal four-octet string, whatever its first octet is; and
\* fails with an error for every other text.
C6_NormalizeAsSpecified ==
    \A k \in 1..Len(calls) :
        calls[k].op = "normalizeMaskToCIDR"
            => LET text == calls[k].args[1]
               IN  IF IsNumeral(text) /\ NumeralValue(text) \in 0..32
                   THEN calls[k].ret = Ok(Number(NumeralValue(text)))
                   ELSE IF AcceptedText(text)
                   THEN calls[k].ret = calculateCIDR(text)
                   ELSE ~calls[k].ret.ok

\* C8 ------------------------------------------------------------------------

MaskRoundTrip ==
    /\ Len(calls) = 2
    /\ calls[1].op = "calculateSubnetMask"
    /\ calls[2].op = "calculateCIDR"
    /\ calls[2].args = <<calls[1].ret.value>>

\* C8: for every prefix p in [0,32], calculateSubnetMask(p) is the mask of p
\* (0.0.0.0 for p = 0, 255.255.255.255 for p = 32) and
\* calculateCIDR(calculateSubnetMask(p)) == p; calculateSubnetMask(p) fails
\* with an error for every p that is not an integer in [0,32].
C8_PrefixRoundTrip ==
    /\ (Len(calls) >= 1 /\ calls[1].op = "calculateSubnetMask")
          => LET cidr == calls[1].args[1]
                 valid == cidr.kind = "integer" /\ cidr.value \in 0..32
             IN  /\ calls[1].ret.ok <=> valid
                 /\ valid => calls[1].ret.value = MaskText(cidr.value)
    /\ MaskRoundTrip => calls[2].ret = Ok(calls[1].args[1])

\* the round trip has been made at the boundary p = 0
C8_Witness ==
    /\ MaskRoundTrip
    /\ calls[1].args[1] = Number(0)
    /\ calls[1].ret = Ok(Dotted(0, 0, 0, 0))
    /\ calls[2].ret = Ok(Number(0))

\* C9 ------------------------------------------------------------------------

\* a call of calculateAvailableIPs on prefix p, given as a numeral or as a mask
AvailableIPsCalled(k, p) ==
    /\ k \in 1..Len(calls)
    /\ calls[k].op = "calculateAvailableIPs"
    /\ calls[k].args[1] \in {NumberToString(p), MaskText(p)}

\* C9 as stated: calculateAvailableIPs(p) == 2^(32-p) - 2 for every p in
\* [0,32]: 254 for p = 24, 2 for p = 30, negative for p = 31 and for p = 32.
C9_AvailableIPsAsStated ==
    \A k \in 1..Len(calls), p \in 0..32 :
        AvailableIPsCalled(k, p)
            => /\ calls[k].ret = Ok(WideMinus(Pow2(32 - p), <<0, 2>>))
               /\ p = 24 => calls[k].ret.value = <<0, 254>>
               /\ p = 30 => calls[k].ret.value = <<0, 2>>
               /\ p \in {31, 32} => calls[k].ret.value[1] < 0

\* C9 as amended: calculateAvailableIPs(p) == 2^(32-p) - 2 for every p in
\* [0,32]: 254 for p = 24, 2 for p = 30, 0 for p = 31, and negative (-1) only
\* for p = 32.
C9_AvailableIPs ==
    \A k \in 1..Len(calls), p \in 0..32 :
        AvailableIPsCalled(k, p)
            => /\ calls[k].ret = Ok(WideMinus(Pow2(32 - p), <<0, 2>>))
               /\ p = 0 => calls[k].ret.value = <<65535, 65534>>
               /\ p = 24 => calls[k].ret.value = <<0, 254>>
               /\ p = 30 => calls[k].ret.value = <<0, 2>>
               /\ p = 31 => calls[k].ret.value = <<0, 0>>
               /\ p = 32 => calls[k].ret.value = <<-1, 65535>>
               /\ calls[k].ret.value[1] < 0 <=> p = 32

\* calculateAvailableIPs has been called on prefix 31 and returned 0
C9_Witness ==
    /\ AvailableIPsCalled(1, 31)
    /\ calls[1].ret = Ok(<<0, 0>>)

-----------------------------------------------------------------------------
\* SpecRange ----------------------------------------------------------------

\* Inputs

RangeIPs ==
    {Dotted(192, 168, 1, 10), Dotted(10, 0, 0, 1), Dotted(0, 0, 0, 0),
     Dotted(255, 255, 255, 255), Dotted(172, 16, 254, 3), Dotted(128, 0, 0, 0),
     Dotted(127, 255, 255, 255), Dotted(85, 170, 85, 170),
     Join(<<NumberToString(192), NumberToString(168), <<"0", "0", "1">>,
            <<"0", "1", "0">>>>, <<".">>),
     Dotted(256, 1, 1, 1)}

RangeMasks ==
    {NumberToString(p) : p \in 0..33} \cup ValidMasks \cup {Dotted(255, 255, 255, 256)}

CallCalculateNetworkAddress ==
    \/ /\ calls = <<>>
       /\ \E ip \in RangeIPs, mask \in RangeMasks :
             Invoke("calculateNetworkAddress", <<ip, mask>>,
                    calculateNetworkAddress(ip, mask))
    \/ /\ Returned("calculateNetworkAddress")
       /\ Invoke("calculateNetworkAddress", <<calls[1].ret.value, calls[1].args[2]>>,
                 calculateNetworkAddress(calls[1].ret.value, calls[1].args[2]))

CallCalculateBroadcastAddress ==
    \/ /\ calls = <<>>
       /\ \E ip \in RangeIPs, mask \in RangeMasks :
             Invoke("calculateBroadcastAddress", <<ip, mask>>,
                    calculateBroadcastAddress(ip, mask))
    \/ /\ Returned("calculateNetworkAddress")
       /\ Invoke("calculateBroadcastAddress", calls[1].args,
                 calculateBroadcastAddress(calls[1].args[1], calls[1].args[2]))

NextRange == CallCalculateNetworkAddress \/ CallCalculateBroadcastAddress \/ Forget

SpecRange == PureInit /\ [][NextRange]_vars

\* C10 -----------------------------------------------------------------------

\* the 32 bits of an accepted text, from the decimal values of its groups
BitsOfText(ip) ==
    [i \in 1..32 |->
        LET octet == DecimalValue(Split(ip, ".")[((i - 1) \div 8) + 1])
        IN  IF (octet \div (2 ^ (7 - ((i - 1) % 8)))) % 2 = 1 THEN "1" ELSE "0"]

\* the dotted-decimal text of 32 bits
TextOfBits(bits) ==
    Dotted(BinaryValue(SubSeq(bits, 1, 8)), BinaryValue(SubSeq(bits, 9, 16)),
           BinaryValue(SubSeq(bits, 17, 24)), BinaryValue(SubSeq(bits, 25, 32)))

\* ip with its last 32 - p bits cleared, and set
LastBitsCleared(ip, p) ==
    TextOfBits([i \in 1..32 |-> IF i <= p THEN BitsOfText(ip)[i] ELSE "0"])

LastBitsSet(ip, p) ==
    TextOfBits([i \in 1..32 |-> IF i <= p THEN BitsOfText(ip)[i] ELSE "1"])

\* the numeric value of an accepted text, as <<hi, lo>>
AddressValue(ip) ==
    LET g == Split(ip, ".")
    IN  <<256 * DecimalValue(g[1]) + DecimalValue(g[2]),
          256 * DecimalValue(g[3]) + DecimalValue(g[4])>>

WideLeq(a, b) == a[1] < b[1] \/ (a[1] = b[1] /\ a[2] <= b[2])

\* the prefix p is given as its numeral or as its mask
GivesPrefix(mask, p) == mask \in {NumberToString(p), MaskText(p)}

NetworkThenBroadcast ==
    /\ Len(calls) = 2
    /\ calls[1].op = "calculateNetworkAddress"
    /\ calls[2].op = "calculateBroadcastAddress"
    /\ calls[2].args = calls[1].args

NetworkTwice ==
    /\ Len(calls) = 2
    /\ calls[1].op = "calculateNetworkAddress"
    /\ calls[2].op = "calculateNetworkAddress"
    /\ calls[2].args = <<calls[1].ret.value, calls[1].args[2]>>

\* C10: for every valid ip and every prefix p in [0,32], given as a prefix or
\* as its mask, calculateNetworkAddress(ip, p) is ip with its last 32-p bits
\* cleared and calculateBroadcastAddress(ip, p) is ip with its last 32-p bits
\* set, so network <= ip <= broadcast and broadcast - network == 2^(32-p) - 1;
\* and calculateNetworkAddress is idempotent.
C10_NetworkAndBroadcast ==
    \A p \in 0..32 :
        /\ \A k \in 1..Len(calls) :
              (/\ calls[k].op \in {"calculateNetworkAddress", "calculateBroadcastAddress"}
               /\ AcceptedText(calls[k].args[1])
               /\ GivesPrefix(calls[k].args[2], p))
                  => calls[k].ret =
                        Ok(IF calls[k].op = "calculateNetworkAddress"
                           THEN LastBitsCleared(calls[k].args[1], p)
                           ELSE LastBitsSet(calls[k].args[1], p))
        /\ (/\ NetworkThenBroadcast
            /\ AcceptedText(calls[1].args[1])
            /\ GivesPrefix(calls[1].args[2], p))
              => LET network == AddressValue(calls[1].ret.value)
                     broadcast == AddressValue(calls[2].ret.value)
                     ip == AddressValue(calls[1].args[1])
                 IN  /\ WideLeq(network, ip)
                     /\ WideLeq(ip, broadcast)
                     /\ WideMinus(broadcast, network)
                           = WideMinus(Pow2(32 - p), <<0, 1>>)
        /\ (/\ NetworkTwice
            /\ AcceptedText(calls[1].args[1])
            /\ GivesPrefix(calls[1].args[2], p))
              => calls[2].ret = calls[1].ret

\* network and broadcast address of 192.168.1.10 under 255.255.255.0
C10_Witness ==
    /\ NetworkThenBroadcast
    /\ calls[1].args = <<Dotted(192, 168, 1, 10), MaskText(24)>>
    /\ calls[1].ret = Ok(Dotted(192, 168, 1, 0))
    /\ calls[2].ret = Ok(Dotted(192, 168, 1, 255))

-----------------------------------------------------------------------------
\* Spec: a caller of the planner --------------------------------------------
\* The caller owns an array of host counts and passes it to
\* calculateRequiredSubnets or to allocateSubnets, any number of times.

\* Inputs

MaxLen == 3

\* host counts that need blocks of 4, 32 (twice) and 1024 addresses
HostCountValues == {2, 24, 26, 1000}

RECURSIVE ListsUpTo(_)
ListsUpTo(n) ==
    IF n = 0 THEN {<<>>}
    ELSE ListsUpTo(n - 1)
             \cup {Append(l, c) : l \in ListsUpTo(n - 1), c \in HostCountValues}

\* a host address, the last /24 of the address space, and an invalid address
BaseIPs == {Dotted(192, 168, 1, 10), Dotted(255, 255, 255, 0), Dotted(256, 1, 1, 1)}

\* a prefix, a dotted mask (of prefix 22), an invalid prefix, and a text that
\* is neither a numeral nor a dotted mask
BaseMasks == {NumberToString(24), MaskText(22), NumberToString(33), <<"2", "4", "a">>}

Init ==
    /\ calls = <<>>
    /\ hostCounts \in ListsUpTo(MaxLen)
    /\ PlannerInit

CallCalculateRequiredSubnets ==
    /\ pc = "idle"
    /\ hostCountsAtCall' = hostCounts
    /\ call' = [op |-> "calculateRequiredSubnets"]
    /\ hostCounts' = SortedInPlace(hostCounts)
    /\ ret' = Ok(calculateRequiredSubnets(hostCounts))
    /\ pc' = "returned"
    /\ UNCHANGED calls

CallAllocateSubnets ==
    /\ pc = "idle"
    /\ \E ip \in BaseIPs, subnetMaskOrCIDR \in BaseMasks :
          /\ hostCountsAtCall' = hostCounts
          /\ call' = [op |-> "allocateSubnets", ip |-> ip,
                      subnetMaskOrCIDR |-> subnetMaskOrCIDR]
          /\ hostCounts' = hostsPerSubnetAfter(ip, subnetMaskOrCIDR, hostCounts)
          /\ ret' = allocateSubnets(ip, subnetMaskOrCIDR, hostCounts)
          /\ pc' = "returned"
    /\ UNCHANGED calls

\* the caller goes on, with its array as the call left it
Resume ==
    /\ pc = "returned"
    /\ pc' = "idle"
    /\ hostCountsAtCall' = <<>>
    /\ call' = NoCall
    /\ ret' = NoCall
    /\ UNCHANGED <<calls, hostCounts>>

Next ==
    \/ CallCalculateRequiredSubnets
    \/ CallAllocateSubnets
    \/ Resume

Spec == Init /\ [][Next]_vars

-----------------------------------------------------------------------------
\* Claims on Spec

AllocateReturned == pc = "returned" /\ call.op = "allocateSubnets" /\ ret.ok

WideLess(a, b) == a[1] < b[1] \/ (a[1] = b[1] /\ a[2] < b[2])

\* the record a lies wholly below the record b
Precedes(a, b) == WideLess(AddressValue(a.broadcast), AddressValue(b.network))

\* C1: when allocateSubnets returns a result, any two distinct records of it
\* do not overlap: the broadcast address of one is numerically strictly lower
\* than the network address of the other.
C1_NoOverlap ==
    AllocateReturned =>
        \A i, j \in 1..Len(ret.value) :
            i # j => \/ Precedes(ret.value[i], ret.value[j])
                     \/ Precedes(ret.value[j], ret.value[i])

\* allocateSubnets("192.168.1.10", "24", [2, 26, 24]) has returned two /27
\* blocks and a /30 block laid one after the other from 192.168.1.0
C1_Witness ==
    /\ AllocateReturned
    /\ call.ip = Dotted(192, 168, 1, 10)
    /\ call.subnetMaskOrCIDR = NumberToString(24)
    /\ hostCountsAtCall = <<2, 26, 24>>
    /\ Len(ret.value) = 3
    /\ ret.value[1].network = Dotted(192, 168, 1, 0)
    /\ ret.value[1].broadcast = Dotted(192, 168, 1, 31)
    /\ ret.value[2].network = Dotted(192, 168, 1, 32)
    /\ ret.value[2].broadcast = Dotted(192, 168, 1, 63)
    /\ ret.value[3].network = Dotted(192, 168, 1, 64)
    /\ ret.value[3].broadcast = Dotted(192, 168, 1, 67)

\* the container: the network of call.ip under call.subnetMaskOrCIDR
ContainerNetwork == calculateNetworkAddress(call.ip, call.subnetMaskOrCIDR).value

ContainerBroadcast == calculateBroadcastAddress(call.ip, call.subnetMaskOrCIDR).value

\* C2: every record allocateSubnets returns lies within the container:
\* container network <= record.network and record.broadcast <= container
\* broadcast, whatever the host counts.
C2_WithinContainer ==
    AllocateReturned =>
        \A i \in 1..Len(ret.value) :
            /\ WideLeq(AddressValue(ContainerNetwork),
                       AddressValue(ret.value[i].network))
            /\ WideLeq(AddressValue(ret.value[i].broadcast),
                       AddressValue(ContainerBroadcast))

RequiredReturned == pc = "returned" /\ call.op = "calculateRequiredSubnets"

\* the prefix of the smallest block with room for c hosts, a network address
\* and a broadcast address (c in 1..2^30 - 2)
MinimalPrefix(c) ==
    CHOOSE p \in 2..31 : 2 ^ (32 - p) - 2 >= c /\ 2 ^ (32 - (p + 1)) - 2 < c

\* 32 - ceil(log2(c + 2)), the ceiling being the only integer k with
\* 2^(k-1) < c + 2 <= 2^k
FormulaPrefix(c) ==
    32 - (CHOOSE k \in 1..30 : 2 ^ (k - 1) < c + 2 /\ c + 2 <= 2 ^ k)

Permutations(array) ==
    {[i \in 1..Len(array) |-> array[f[i]]] :
        f \in {g \in [1..Len(array) -> 1..Len(array)] :
                  \A i, j \in 1..Len(array) : g[i] = g[j] => i = j}}

Occurrences(array, x) == Cardinality({i \in 1..Len(array) : array[i] = x})

\* C3: for host counts that are all >= 1, calculateRequiredSubnets returns a
\* list of the same length, in descending order, holding exactly the values
\* 32 - ceil(log2(c + 2)) of the counts c, each of them the prefix of the
\* smallest block that holds c hosts and two reserved addresses; every
\* permutation of the input gives the same list.
C3_RequiredSubnets ==
    (RequiredReturned /\ \A i \in 1..Len(hostCountsAtCall) : hostCountsAtCall[i] >= 1) =>
        /\ ret.ok
        /\ Len(ret.value) = Len(hostCountsAtCall)
        /\ \A i, j \in 1..Len(ret.value) :
              i < j => ret.value[i].value >= ret.value[j].value
        /\ \A p \in 0..32 :
              Occurrences(ret.value, Number(p))
                  = Occurrences([i \in 1..Len(hostCountsAtCall) |->
                                    FormulaPrefix(hostCountsAtCall[i])], p)
        /\ \A i \in 1..Len(hostCountsAtCall) :
              FormulaPrefix(hostCountsAtCall[i]) = MinimalPrefix(hostCountsAtCall[i])
        /\ \A other \in Permutations(hostCountsAtCall) :
              calculateRequiredSubnets(other) = ret.value

\* calculateRequiredSubnets([26, 1000, 2]) has returned [30, 27, 22]
C3_Witness ==
    /\ RequiredReturned
    /\ hostCountsAtCall = <<26, 1000, 2>>
    /\ ret = Ok(<<Number(30), Number(27), Number(22)>>)

\* C4: after calculateRequiredSubnets or allocateSubnets has returned or
\* thrown, the caller's hostCounts array holds the same elements in the same
\* order as before the call.
C4_HostCountsUntouched == pc = "returned" => hostCounts = hostCountsAtCall

\* the text is the numeral of a prefix in [0,32] or the dotted mask of one
ValidMaskOrPrefix(text) ==
    \/ IsNumeral(text) /\ NumeralValue(text) \in 0..32
    \/ text \in ValidMasks

InvalidRequest ==
    ~AcceptedText(call.ip) \/ ~ValidMaskOrPrefix(call.subnetMaskOrCIDR)

\* C11: allocateSubnets called with an invalid base IP or an invalid
\* mask/prefix fails with an error before any subnet is sized (the host
\* counts are not yet touched); and whenever allocateSubnets fails the caller
\* receives an error and no list of records.
C11_FailsWithoutRecords ==
    (pc = "returned" /\ call.op = "allocateSubnets") =>
        /\ InvalidRequest => (~ret.ok /\ hostCounts = hostCountsAtCall)
        /\ ~ret.ok => DOMAIN ret = {"ok", "error"}

WidePlusOne(a) == IF a[2] = 65535 THEN <<a[1] + 1, 0>> ELSE <<a[1], a[2] + 1>>

\* C12: when allocateSubnets returns, the result has one record per element
\* of hostCounts, the records are in non-decreasing cidr order, the first
\* record's network is the container's network address, and each later
\* record's network is the preceding record's broadcast address plus 1.
C12_SequentialPlacement ==
    AllocateReturned =>
        /\ Len(ret.value) = Len(hostCountsAtCall)
        /\ \A i, j \in 1..Len(ret.value) :
              i < j => ret.value[i].cidr.value <= ret.value[j].cidr.value
        /\ Len(ret.value) >= 1 => ret.value[1].network = ContainerNetwork
        /\ \A i \in 2..Len(ret.value) :
              AddressValue(ret.value[i].network)
                  = WidePlusOne(AddressValue(ret.value[i - 1].broadcast))

\* allocateSubnets("192.168.1.10", "24", [24, 26]), in the container
\* 192.168.1.0/24, has returned two /27 records whose first usable addresses
\* are 192.168.1.1 and 192.168.1.33
C12_Witness ==
    /\ AllocateReturned
    /\ call.ip = Dotted(192, 168, 1, 10)
    /\ call.subnetMaskOrCIDR = NumberToString(24)
    /\ hostCountsAtCall = <<24, 26>>
    /\ Len(ret.value) = 2
    /\ ret.value[1].cidr = Number(27)
    /\ ret.value[1].network = Dotted(192, 168, 1, 0)
    /\ ret.value[1].firstIP = Dotted(192, 168, 1, 1)
    /\ ret.value[2].cidr = Number(27)
    /\ ret.value[2].network = Dotted(192, 168, 1, 32)
    /\ ret.value[2].firstIP = Dotted(192, 168, 1, 33)

\* the SubnetAllocation invariant on one record
RecordInvariant(record) ==
    LET networkBits == BitsOfText(record.network)
    IN  /\ record.subnetMask = MaskText(record.cidr.value)
        /\ record.wildCardMask = ComplementText(record.cidr.value)
        /\ AndBits(networkBits, BitsOfText(record.subnetMask)) = networkBits
        /\ BitsOfText(record.broadcast)
              = OrBits(networkBits, BitsOfText(record.wildCardMask))
        /\ AddressValue(record.firstIP) = WidePlusOne(AddressValue(record.network))
        /\ AddressValue(record.broadcast) = WidePlusOne(AddressValue(record.lastIP))

\* C13: every record returned by allocateSubnets satisfies
\* (network AND subnetMask) == network, broadcast == (network OR
\* wildCardMask), firstIP == network + 1 and lastIP == broadcast - 1, with
\* subnetMask and wildCardMask the mask and complement mask of the record's
\* cidr, whatever the base network and the host counts.
C13_RecordInvariant ==
    AllocateReturned => \A i \in 1..Len(ret.value) : RecordInvariant(ret.value[i])

-----------------------------------------------------------------------------
\* SpecStep: a caller of incrementIP, decrementIP and calculateIPRange -------

\* Inputs: addresses at and next to the ends of the address space and at
\* octet boundaries, one with leading zeros, and two texts that are not
\* addresses
StepIPs ==
    {Dotted(0, 0, 0, 0), Dotted(0, 0, 0, 1), Dotted(255, 255, 255, 255),
     Dotted(255, 255, 255, 254), Dotted(0, 0, 0, 255), Dotted(0, 0, 255, 255),
     Dotted(0, 255, 255, 255), Dotted(1, 0, 0, 0), Dotted(192, 168, 1, 0),
     Dotted(192, 168, 1, 255), Dotted(127, 255, 255, 255), Dotted(128, 0, 0, 0),
     Join(<<NumberToString(192), NumberToString(168), <<"0", "0", "1">>,
            <<"0", "1", "0">>>>, <<".">>),
     Dotted(256, 1, 1, 1), <<"1", ".", "2", ".", "3">>}

StepMasks ==
    {NumberToString(0), NumberToString(24), NumberToString(31), NumberToString(32),
     MaskText(16), MaskText(32), NumberToString(33)}

CallIncrementIP ==
    \/ /\ calls = <<>>
       /\ \E ip \in StepIPs : Invoke("incrementIP", <<ip>>, incrementIP(ip))
    \/ /\ Returned("decrementIP")
       /\ Invoke("incrementIP", <<calls[1].ret.value>>, incrementIP(calls[1].ret.value))

CallDecrementIP ==
    \/ /\ calls = <<>>
       /\ \E ip \in StepIPs : Invoke("decrementIP", <<ip>>, decrementIP(ip))
    \/ /\ Returned("incrementIP")
       /\ Invoke("decrementIP", <<calls[1].ret.value>>, decrementIP(calls[1].ret.value))

CallCalculateIPRange ==
    /\ calls = <<>>
    /\ \E networkAddress \in StepIPs, subnetMaskOrCIDR \in StepMasks :
          Invoke("calculateIPRange", <<networkAddress, subnetMaskOrCIDR>>,
                 calculateIPRange(networkAddress, subnetMaskOrCIDR))

NextStep == CallIncrementIP \/ CallDecrementIP \/ CallCalculateIPRange \/ Forget

SpecStep == PureInit /\ [][NextStep]_vars

\* C14 -----------------------------------------------------------------------

TopValue == <<65535, 65535>>

ZeroValue == <<0, 0>>

\* the canonical dotted-decimal text of a 32-bit value <<hi, lo>>
TextOfValue(v) == Dotted(v[1] \div 256, v[1] % 256, v[2] \div 256, v[2] % 256)

\* v + 1 and v - 1 modulo 2^32
WideSucc(v) == IF v = TopValue THEN ZeroValue ELSE WidePlusOne(v)

WidePred(v) == IF v = ZeroValue THEN TopValue ELSE WideMinus(v, Wide(1))

DecrementAfterIncrement ==
    /\ Len(calls) = 2
    /\ calls[1].op = "incrementIP"
    /\ calls[2].op = "decrementIP"
    /\ calls[2].args = <<calls[1].ret.value>>

\* C14 as stated: for every valid ip, incrementIP(ip) is the address of value
\* value(ip) + 1 modulo 2^32 and decrementIP(ip) the address of value
\* value(ip) - 1 modulo 2^32, so decrementIP(incrementIP(ip)) == ip; and
\* calculateIPRange returns firstIP = network + 1 modulo 2^32, with no error,
\* for every valid network address.
C14_StepsWrapAround ==
    /\ \A k \in 1..Len(calls) :
          AcceptedText(calls[k].args[1]) =>
              LET value == AddressValue(calls[k].args[1])
              IN  /\ calls[k].op = "incrementIP"
                        => calls[k].ret = Ok(TextOfValue(WideSucc(value)))
                  /\ calls[k].op = "decrementIP"
                        => calls[k].ret = Ok(TextOfValue(WidePred(value)))
                  /\ (calls[k].op = "calculateIPRange"
                         /\ ValidMaskOrPrefix(calls[k].args[2]))
                        => /\ calls[k].ret.ok
                           /\ calls[k].ret.value.firstIP = TextOfValue(WideSucc(value))
    /\ (Len(calls) >= 1 /\ calls[1].op = "incrementIP" /\ AcceptedText(calls[1].args[1]))
          => /\ calls[1].ret.ok
             /\ DecrementAfterIncrement => calls[2].ret = Ok(calls[1].args[1])

\* the prefix a valid mask or prefix text stands for
PrefixGiven(text) == CHOOSE p \in 0..32 : GivesPrefix(text, p)

\* C14, amended: for every valid ip, incrementIP(ip) is the canonical text of
\* value(ip) + 1, except that incrementIP("255.255.255.255") fails, and
\* decrementIP(ip) is the canonical text of value(ip) - 1, except that
\* decrementIP("0.0.0.0") fails; decrementIP(incrementIP(ip)) is ip in
\* canonical text (without leading zeros) whenever the increment returns;
\* and calculateIPRange(network, p) returns firstIP = network + 1 and
\* lastIP = broadcast - 1, except that it fails when network is
\* 255.255.255.255 or the broadcast address is 0.0.0.0.
C14_StepsOrFail ==
    /\ \A k \in 1..Len(calls) :
          AcceptedText(calls[k].args[1]) =>
              LET value == AddressValue(calls[k].args[1])
              IN  /\ calls[k].op = "incrementIP"
                        => calls[k].ret =
                              IF value = TopValue THEN Throw("Invalid binary string")
                              ELSE Ok(TextOfValue(WidePlusOne(value)))
                  /\ calls[k].op = "decrementIP"
                        => calls[k].ret =
                              IF value = ZeroValue THEN Throw("Invalid binary string")
                              ELSE Ok(TextOfValue(WideMinus(value, Wide(1))))
                  /\ (calls[k].op = "calculateIPRange"
                         /\ ValidMaskOrPrefix(calls[k].args[2]))
                        => LET broadcast ==
                                   AddressValue(LastBitsSet(calls[k].args[1],
                                                            PrefixGiven(calls[k].args[2])))
                           IN  calls[k].ret =
                                   IF value = TopValue \/ broadcast = ZeroValue
                                   THEN Throw("Invalid binary string")
                                   ELSE Ok([firstIP |-> TextOfValue(WidePlusOne(value)),
                                            lastIP |-> TextOfValue(WideMinus(broadcast,
                                                                             Wide(1)))])
    /\ (DecrementAfterIncrement /\ AcceptedText(calls[1].args[1]))
          => calls[2].ret = Ok(CanonicalText(calls[1].args[1]))

\* incrementIP("0.0.0.255") has returned "0.0.1.0" and decrementIP of it has
\* returned "0.0.0.255"
C14_Witness ==
    /\ DecrementAfterIncrement
    /\ calls[1].args = <<Dotted(0, 0, 0, 255)>>
    /\ calls[1].ret = Ok(Dotted(0, 0, 1, 0))
    /\ calls[2].ret = Ok(Dotted(0, 0, 0, 255))

====
